---- MODULE Spec2Model ----
(***************************************************************************)
(* hornbill: OAuth2 token lifecycle (utils/truelayer.py), the SQLite       *)
(* credential store (utils/database.py) and the import routes and the      *)
(* periodic import task (api.py).                                          *)
(*                                                                         *)
(* Threads: "bg" is the worker thread of asyncio.to_thread that runs       *)
(* import_all_accounts for the periodic task; "req" is a threadpool thread *)
(* serving one route handler at a time.  Every store call (one sqlite      *)
(* connection, one statement) and every HTTP exchange is one step.         *)
(***************************************************************************)
EXTENDS Integers, Sequences, FiniteSets, TLC

VARIABLES
    now,                  \* time.time(), epoch seconds
    tokens,               \* table tokens: a set of rows
    accounts,             \* table accounts: a sequence of rows, in id order
    env,                  \* process environment: TRUE_LAYER_CODE, client id/secret
    import_task_started,  \* app.state.import_task_started
    import_tasks,         \* periodic_transactions_import tasks created in this process
    task,                 \* the periodic task: its position, wake-up time, last log line
    cycle,                \* import_all_accounts in thread "bg": list, index, logs
    pc, op, inst, acct,   \* per thread: position, handler, path parameters
    tok,                  \* per thread: `tokens` of _ensure_tokens_ready
    pending,              \* per thread: TokenData about to be saved
    err, http,            \* per thread: exception raised, and HTTP status of the outcome
    endpoint,             \* per thread: upstream transaction listing called
    resp,                 \* per thread: outcome of the POST to the import service
    calls,                \* per thread: upstream data requests and forwards of this operation
    nextGrant,            \* upstream: number of the next token pair it issues
    failedCodes,          \* per institution: codes whose exchange failed in this process
    ret                   \* the last call made on a Database object alone, and its outcome

dbVars   == <<tokens, accounts>>
procVars == <<env, import_task_started, import_tasks>>
thrVars  == <<pc, op, inst, acct, tok, pending, err, http, endpoint, resp, calls>>
vars     == <<now, tokens, accounts, env, import_task_started, import_tasks,
              task, cycle, pc, op, inst, acct, tok, pending, err, http,
              endpoint, resp, calls, nextGrant, failedCodes, ret>>

----------------------------------------------------------------------------
(* Bounds of the exploration *)

MaxTime == 60
MaxGrants == 2
MaxAccounts == 3
MaxRows == 2

(* Program constants *)

TOKEN_SKEW_SECONDS == 60

TickSeconds == TOKEN_SKEW_SECONDS \div 2
\* TRANSACTIONS_IMPORT_INTERVAL_SECONDS as configured
Interval == 2 * TickSeconds
LastTime == MaxTime - (MaxTime % TickSeconds)

Threads == {"bg", "req"}
Institutions == {"barclays"}
AccountNames == {"checking1", "creditcard1", "ghost"}
Codes == {"code1"}
NoCode == ""
Scopes == {"info accounts", "cards"}
Omitted == "omitted"
\* expires_in of the provider's answers: lifetimes longer than the skew
ExpiresIn == {TOKEN_SKEW_SECONDS + TickSeconds, TOKEN_SKEW_SECONDS + 2 * TickSeconds}
Provider == "truelayer"
None == [none |-> TRUE]

----------------------------------------------------------------------------
(* utils/database.py *)

TokenData(access_token, refresh_token, token_type, scope, expires_at) ==
    [access_token |-> access_token, refresh_token |-> refresh_token,
     token_type |-> token_type, scope |-> scope, expires_at |-> expires_at]

\* SELECT ... FROM tokens WHERE institution = ?; fetchone
get_token(institution) ==
    LET rows == {r \in tokens : r.institution = institution}
    IN  IF rows = {} THEN None
        ELSE LET row == CHOOSE r \in rows : TRUE
             IN  TokenData(row.access_token, row.refresh_token, row.token_type,
                           row.scope, row.expires_at)

\* Mutant of save_token: on conflict only access_token and expires_at are updated.
save_tokenFieldwise(institution, token_data) ==
    LET old == {r \in tokens : r.provider = Provider /\ r.institution = institution}
    IN  IF old = {}
        THEN tokens \cup {[provider |-> Provider, institution |-> institution,
                           access_token |-> token_data.access_token,
                           refresh_token |-> token_data.refresh_token,
                           token_type |-> token_data.token_type,
                           scope |-> token_data.scope,
                           expires_at |-> token_data.expires_at]}
        ELSE (tokens \ old)
                \cup {[r EXCEPT !.access_token = token_data.access_token,
                                !.expires_at = token_data.expires_at] : r \in old}

\* Mutant of save_token: a plain INSERT into a table without the primary key.
save_tokenAppend(institution, token_data) ==
    tokens \cup {[provider |-> Provider, institution |-> institution,
                  access_token |-> token_data.access_token,
                  refresh_token |-> token_data.refresh_token,
                  token_type |-> token_data.token_type,
                  scope |-> token_data.scope,
                  expires_at |-> token_data.expires_at]}

\* INSERT ... ON CONFLICT(provider, institution) DO UPDATE SET ...
\* (the column updated_at is written and never read; it is left out of the rows)
save_token(institution, token_data) ==
    LET row == [provider |-> Provider, institution |-> institution,
                access_token |-> token_data.access_token,
                refresh_token |-> token_data.refresh_token,
                token_type |-> token_data.token_type,
                scope |-> token_data.scope,
                expires_at |-> token_data.expires_at]
    IN  {r \in tokens : ~(r.provider = row.provider /\ r.institution = row.institution)}
            \cup {row}

\* Mutant of AccountRowsOf: the institution is not part of the WHERE clause.
AccountRowsOfAnyInstitution(account_name, institution) ==
    SelectSeq(accounts, LAMBDA r : r.name = account_name)

\* rows of accounts WHERE name = ? AND institution = ?, in id order
AccountRowsOf(account_name, institution) ==
    SelectSeq(accounts, LAMBDA r : r.name = account_name /\ r.institution = institution)

\* Mutant of is_credit_card: every account found is taken for a bank account.
is_credit_cardNever(account_name, institution) ==
    LET rows == AccountRowsOf(account_name, institution)
    IN  IF rows = <<>> THEN None ELSE [value |-> FALSE]

is_credit_card(account_name, institution) ==
    LET rows == AccountRowsOf(account_name, institution)
    IN  IF rows = <<>> THEN None ELSE [value |-> rows[1].type = "credit"]

get_account_id(account_name, institution) ==
    LET rows == AccountRowsOf(account_name, institution)
    IN  IF rows = <<>> THEN None ELSE [value |-> rows[1].truelayer_account_id]

get_actual_account_id(account_name, institution) ==
    LET rows == AccountRowsOf(account_name, institution)
    IN  IF rows = <<>> THEN None ELSE [value |-> rows[1].actual_account_id]

\* Mutant of get_actual_accounts: no WHERE clause.
get_actual_accountsUnfiltered ==
    [k \in 1..Len(accounts) |-> <<accounts[k].name, accounts[k].institution>>]

\* SELECT name, institution FROM accounts WHERE actual_account_id IS NOT NULL
get_actual_accounts ==
    LET active == SelectSeq(accounts, LAMBDA r : r.actual_account_id # "NULL")
    IN  [k \in 1..Len(active) |-> <<active[k].name, active[k].institution>>]

----------------------------------------------------------------------------
(* The environment: the rows provisioned out of band, the upstream provider *)

AccountRow(name, type, institution, truelayer_account_id, actual_account_id) ==
    [name |-> name, type |-> type, institution |-> institution,
     truelayer_account_id |-> truelayer_account_id,
     actual_account_id |-> actual_account_id]

Provisioned ==
    <<AccountRow("checking1", "debit", "barclays", "tl-acc-1", "actual-1"),
      AccountRow("savings1", "debit", "barclays", "tl-acc-2", "NULL"),
      AccountRow("creditcard1", "credit", "barclays", "tl-card-1", "actual-3"),
      AccountRow("checking2", "debit", "barclays", "tl-acc-4", "actual-4")>>

\* the rows of table accounts
AccountTable ==
    SubSeq(Provisioned, 1, IF MaxAccounts < Len(Provisioned)
                           THEN MaxAccounts ELSE Len(Provisioned))

Envs == [code : Codes \cup {NoCode}, client_ok : BOOLEAN]

\* the scope the resource owner granted with an authorization code
GrantedScope(code) == "info accounts"

\* JSON body of a 200 answer of the token endpoint, token pair number g
TokenResponse(g, scope, expires_in) ==
    [access_token |-> <<"access", g>>, refresh_token |-> <<"refresh", g>>,
     token_type |-> "Bearer", scope |-> scope, expires_in |-> expires_in]

TokenStatuses == {200, 400}
DataStatuses == {200, 500}
ForwardOutcomes == {"RequestException", "200", "422"}
Unhandled == 500

----------------------------------------------------------------------------
(* Threads: outcome of a handler *)

Raise(t, e, status) ==
    /\ pc' = [pc EXCEPT ![t] = "failed"]
    /\ err' = [err EXCEPT ![t] = e]
    /\ http' = [http EXCEPT ![t] = status]

NoCalls == [fetch |-> 0, forward |-> 0]

\* no call has been made on a Database object alone
NoCall == [call |-> "none"]

----------------------------------------------------------------------------
(* utils/truelayer.py: construction of the client *)

\* tokens.expires_at <= now + self.TOKEN_SKEW_SECONDS
ExpiringSoon(token_data) == token_data.expires_at <= now + TOKEN_SKEW_SECONDS

\* Mutant of EnsureTokensReady: the code is required before the store is looked at.
EnsureTokensReadyCodeFirst(t, institution) ==
    LET stored == get_token(institution)
    IN  IF env.code = NoCode
        THEN /\ Raise(t, "CredentialsUnavailable", Unhandled)
             /\ UNCHANGED tok
        ELSE IF stored = None
        THEN /\ pc' = [pc EXCEPT ![t] = "exchanging"]
             /\ UNCHANGED <<tok, err, http>>
        ELSE /\ IF ExpiringSoon(stored)
                THEN /\ pc' = [pc EXCEPT ![t] = "refresh"]
                     /\ tok' = [tok EXCEPT ![t] = stored]
                ELSE /\ pc' = [pc EXCEPT ![t] = "ready"]
                     /\ UNCHANGED tok
             /\ UNCHANGED <<err, http>>

\* Mutant of EnsureTokensReady: the exchange is posted whether or not a code is set.
EnsureTokensReadyNoCodeCheck(t, institution) ==
    LET stored == get_token(institution)
    IN  IF stored = None
        THEN /\ pc' = [pc EXCEPT ![t] = "exchanging"]
             /\ UNCHANGED <<tok, err, http>>
        ELSE /\ IF ExpiringSoon(stored)
                THEN /\ pc' = [pc EXCEPT ![t] = "refresh"]
                     /\ tok' = [tok EXCEPT ![t] = stored]
                ELSE /\ pc' = [pc EXCEPT ![t] = "ready"]
                     /\ UNCHANGED tok
             /\ UNCHANGED <<err, http>>

\* _ensure_tokens_ready: the stored tokens are read and the branch is taken: raise,
\* post the authorization_code grant, go on to post the refresh_token grant with
\* tokens.refresh_token (`tokens` is kept until then), or return
EnsureTokensReady(t, institution) ==
    LET stored == get_token(institution)
    IN  IF stored = None
        THEN /\ UNCHANGED tok
             /\ IF env.code = NoCode
                THEN Raise(t, "CredentialsUnavailable", Unhandled)
                ELSE /\ pc' = [pc EXCEPT ![t] = "exchanging"]
                     /\ UNCHANGED <<err, http>>
        ELSE /\ IF ExpiringSoon(stored)
                THEN /\ pc' = [pc EXCEPT ![t] = "refresh"]
                     /\ tok' = [tok EXCEPT ![t] = stored]
                ELSE /\ pc' = [pc EXCEPT ![t] = "ready"]
                     /\ UNCHANGED tok
             /\ UNCHANGED <<err, http>>

\* TrueLayer.__init__: the configuration is read, the store is opened,
\* _ensure_tokens_ready is called
Construct(t, institution) ==
    IF ~env.client_ok
    THEN /\ Raise(t, "ValueError", Unhandled)
         /\ UNCHANGED tok
    ELSE EnsureTokensReady(t, institution)

\* TokenData built from the answer to the authorization_code grant
exchange_code_for_tokens(data) ==
    TokenData(data.access_token, data.refresh_token, data.token_type, data.scope,
              now + data.expires_in)

\* _exchange_code_for_tokens: the answer arrives
ExchangeResponse(t) ==
    /\ pc[t] = "exchanging"
    /\ \E status \in TokenStatuses, expires_in \in ExpiresIn :
          IF status # 200
          THEN /\ Raise(t, "TokenExchangeFailed", Unhandled)
               /\ failedCodes' = [failedCodes EXCEPT ![inst[t]] = @ \cup {env.code}]
               /\ UNCHANGED <<pending, nextGrant>>
          ELSE /\ nextGrant <= MaxGrants
               /\ pending' = [pending EXCEPT ![t] = exchange_code_for_tokens(
                                 TokenResponse(nextGrant, GrantedScope(env.code), expires_in))]
               /\ nextGrant' = nextGrant + 1
               /\ pc' = [pc EXCEPT ![t] = "save_exchanged"]
               /\ UNCHANGED <<err, http, failedCodes>>
    /\ UNCHANGED <<now, dbVars, procVars, task, cycle, op, inst, acct, tok,
                   endpoint, resp, calls, ret>>

\* _ensure_tokens_ready: self.db.save_token(exchanged)
SaveExchanged(t) ==
    /\ pc[t] = "save_exchanged"
    /\ tokens' = save_token(inst[t], pending[t])
    /\ pending' = [pending EXCEPT ![t] = None]
    /\ pc' = [pc EXCEPT ![t] = "ready"]
    /\ UNCHANGED <<now, accounts, procVars, task, cycle, op, inst, acct, tok,
                   err, http, endpoint, resp, calls, nextGrant, failedCodes, ret>>

\* _refresh_tokens: the refresh_token grant is posted with tokens.refresh_token
PostRefresh(t) ==
    /\ pc[t] = "refresh"
    /\ pc' = [pc EXCEPT ![t] = "refreshing"]
    /\ tok' = [tok EXCEPT ![t] = None]
    /\ UNCHANGED <<now, dbVars, procVars, task, cycle, op, inst, acct, pending,
                   err, http, endpoint, resp, calls, nextGrant, failedCodes, ret>>

\* Mutant of refresh_tokens: the scope is taken from the answer.
refresh_tokensResponseScope(data, institution) ==
    TokenData(data.access_token, data.refresh_token, data.token_type,
              data.scope, now + data.expires_in)

\* TokenData built from the answer to the refresh_token grant
refresh_tokens(data, institution) ==
    TokenData(data.access_token, data.refresh_token, data.token_type,
              get_token(institution).scope, now + data.expires_in)

\* Mutant of RefreshResponse: on a non-success answer the stored token is used as it is.
RefreshResponseFallsBack(t) ==
    /\ pc[t] = "refreshing"
    /\ \E status \in TokenStatuses, expires_in \in ExpiresIn,
          scope \in Scopes \cup {Omitted} :
          IF status # 200
          THEN /\ pc' = [pc EXCEPT ![t] = "ready"]
               /\ UNCHANGED <<pending, nextGrant, err, http>>
          ELSE /\ nextGrant <= MaxGrants
               /\ pending' = [pending EXCEPT ![t] =
                                 TokenData(<<"access", nextGrant>>, <<"refresh", nextGrant>>,
                                           "Bearer", get_token(inst[t]).scope,
                                           now + expires_in)]
               /\ nextGrant' = nextGrant + 1
               /\ pc' = [pc EXCEPT ![t] = "save_refreshed"]
               /\ UNCHANGED <<err, http>>
    /\ UNCHANGED <<now, dbVars, procVars, task, cycle, op, inst, acct, tok,
                   endpoint, resp, calls, failedCodes, ret>>

\* _refresh_tokens: the answer arrives
RefreshResponse(t) ==
    /\ pc[t] = "refreshing"
    /\ \E status \in TokenStatuses, expires_in \in ExpiresIn,
          scope \in Scopes \cup {Omitted} :
          IF status # 200
          THEN /\ Raise(t, "TokenRefreshFailed", Unhandled)
               /\ UNCHANGED <<pending, nextGrant>>
          ELSE /\ nextGrant <= MaxGrants
               /\ pending' = [pending EXCEPT ![t] = refresh_tokens(
                                 TokenResponse(nextGrant, scope, expires_in), inst[t])]
               /\ nextGrant' = nextGrant + 1
               /\ pc' = [pc EXCEPT ![t] = "save_refreshed"]
               /\ UNCHANGED <<err, http>>
    /\ UNCHANGED <<now, dbVars, procVars, task, cycle, op, inst, acct, tok,
                   endpoint, resp, calls, failedCodes, ret>>

\* _ensure_tokens_ready: self.db.save_token(refreshed)
SaveRefreshed(t) ==
    /\ pc[t] = "save_refreshed"
    /\ tokens' = save_token(inst[t], pending[t])
    /\ pending' = [pending EXCEPT ![t] = None]
    /\ pc' = [pc EXCEPT ![t] = "ready"]
    /\ UNCHANGED <<now, accounts, procVars, task, cycle, op, inst, acct, tok,
                   err, http, endpoint, resp, calls, nextGrant, failedCodes, ret>>

----------------------------------------------------------------------------
(* utils/truelayer.py: data calls *)

\* the bearer token of a data call: self.db.get_token().access_token
BearerToken(t) == get_token(inst[t])

\* _list_accounts / _list_cards, called by the routes list_accounts and list_cards
ListCall(t) ==
    /\ pc[t] = "ready"
    /\ op[t] \in {"list_accounts", "list_cards"}
    /\ calls' = [calls EXCEPT ![t].fetch = @ + 1]
    /\ \E status \in DataStatuses :
          IF status # 200
          THEN Raise(t, "UpstreamRequestFailed", Unhandled)
          ELSE /\ pc' = [pc EXCEPT ![t] = "done"]
               /\ http' = [http EXCEPT ![t] = 200]
               /\ UNCHANGED err
    /\ UNCHANGED <<now, dbVars, procVars, task, cycle, op, inst, acct, tok, pending,
                   endpoint, resp, nextGrant, failedCodes, ret>>

\* list_transactions: the account kind selects the listing call;
\* _list_card_transactions / _list_account_transactions: get_account_id, then the GET
ListTransactions(t) ==
    /\ pc[t] = "ready"
    /\ op[t] = "import"
    /\ LET is_card == is_credit_card(acct[t], inst[t])
       IN  IF is_card = None \/ get_account_id(acct[t], inst[t]) = None
           THEN /\ Raise(t, "NotFound", Unhandled)
                /\ UNCHANGED <<endpoint, calls>>
           ELSE /\ endpoint' = [endpoint EXCEPT ![t] =
                                    IF is_card.value THEN "cards" ELSE "accounts"]
                /\ calls' = [calls EXCEPT ![t].fetch = @ + 1]
                /\ \E status \in DataStatuses :
                      IF status # 200
                      THEN Raise(t, "UpstreamRequestFailed", Unhandled)
                      ELSE /\ pc' = [pc EXCEPT ![t] = "forward"]
                           /\ UNCHANGED <<err, http>>
    /\ UNCHANGED <<now, dbVars, procVars, task, cycle, op, inst, acct, tok, pending,
                   resp, nextGrant, failedCodes, ret>>

----------------------------------------------------------------------------
(* api.py: routes *)

\* Mutant of ForwardStatus: every failure of the forward is answered 502.
ForwardStatusAlways502(outcome) ==
    IF outcome = "200" THEN 200 ELSE 502

\* status of the HTTPException raised for an outcome of the POST to the import service
ForwardStatus(outcome) ==
    IF outcome = "RequestException" THEN 502
    ELSE IF outcome = "422" THEN 422 ELSE 200

\* Mutant of Forward: the POST to the import service does not wait for the listing.
ForwardUnordered(t) ==
    /\ pc[t] \in {"ready", "forward"}
    /\ op[t] = "import"
    /\ calls' = [calls EXCEPT ![t].forward = @ + 1]
    /\ resp' = [resp EXCEPT ![t] = "200"]
    /\ pc' = [pc EXCEPT ![t] = "done"]
    /\ http' = [http EXCEPT ![t] = 200]
    /\ UNCHANGED <<now, dbVars, procVars, task, cycle, op, inst, acct, tok, pending,
                   err, endpoint, nextGrant, failedCodes, ret>>

\* import_transactions: get_actual_account_id, then the POST to the import service
Forward(t) ==
    /\ pc[t] = "forward"
    /\ calls' = [calls EXCEPT ![t].forward = @ + 1]
    /\ \E outcome \in ForwardOutcomes :
          /\ resp' = [resp EXCEPT ![t] = outcome]
          /\ IF outcome # "200"
             THEN Raise(t, "HTTPException", ForwardStatus(outcome))
             ELSE /\ pc' = [pc EXCEPT ![t] = "done"]
                  /\ http' = [http EXCEPT ![t] = ForwardStatus(outcome)]
                  /\ UNCHANGED err
    /\ UNCHANGED <<now, dbVars, procVars, task, cycle, op, inst, acct, tok, pending,
                   endpoint, nextGrant, failedCodes, ret>>

\* a request arrives for one of the routes; the handler constructs the client
StartRequest(t) ==
    /\ t = "req"
    /\ pc[t] = "idle"
    /\ \E o \in {"import", "list_accounts", "list_cards"}, i \in Institutions,
          a \in AccountNames :
          /\ o # "import" => a = "ghost"
          /\ op' = [op EXCEPT ![t] = o]
          /\ inst' = [inst EXCEPT ![t] = i]
          /\ acct' = [acct EXCEPT ![t] = a]
          /\ Construct(t, i)
    /\ UNCHANGED <<now, dbVars, procVars, task, cycle, pending, endpoint, calls,
                   resp, nextGrant, failedCodes, ret>>

\* the locals of a thread whose handler has returned
Released(t) ==
    /\ pc' = [pc EXCEPT ![t] = "idle"]
    /\ op' = [op EXCEPT ![t] = "none"]
    /\ inst' = [inst EXCEPT ![t] = "none"]
    /\ acct' = [acct EXCEPT ![t] = "none"]
    /\ tok' = [tok EXCEPT ![t] = None]
    /\ pending' = [pending EXCEPT ![t] = None]
    /\ err' = [err EXCEPT ![t] = "none"]
    /\ http' = [http EXCEPT ![t] = 0]
    /\ endpoint' = [endpoint EXCEPT ![t] = "none"]
    /\ resp' = [resp EXCEPT ![t] = "none"]
    /\ calls' = [calls EXCEPT ![t] = NoCalls]

\* the response of the route is sent
Respond(t) ==
    /\ t = "req"
    /\ pc[t] \in {"done", "failed"}
    /\ Released(t)
    /\ UNCHANGED <<now, dbVars, procVars, task, cycle, nextGrant, failedCodes, ret>>

----------------------------------------------------------------------------
(* api.py: import_all_accounts, run in thread "bg" *)

IdleCycle ==
    [pc |-> "idle", list |-> <<>>, idx |-> 0, attempts |-> <<>>, outcome |-> <<>>,
     logged |-> 0]

\* accounts = Database().get_actual_accounts(); the store may fail to open or to answer
ListActiveAccounts ==
    /\ cycle.pc = "list"
    /\ \/ cycle' = [cycle EXCEPT !.pc = "raised"]
       \/ LET list == get_actual_accounts
          IN  cycle' = [pc |-> "loop", list |-> list, idx |-> 1,
                        attempts |-> [k \in 1..Len(list) |-> 0],
                        outcome |-> [k \in 1..Len(list) |-> "none"],
                        logged |-> 0]
    /\ UNCHANGED <<now, dbVars, procVars, task, thrVars, nextGrant, failedCodes, ret>>

\* for name, institution in accounts: import_transactions(institution, name)
NextAccount ==
    /\ cycle.pc = "loop"
    /\ IF cycle.idx > Len(cycle.list)
       THEN /\ cycle' = [cycle EXCEPT !.pc = "returned"]
            /\ UNCHANGED thrVars
       ELSE /\ cycle' = [cycle EXCEPT !.pc = "import", !.attempts[cycle.idx] = @ + 1]
            /\ op' = [op EXCEPT !["bg"] = "import"]
            /\ acct' = [acct EXCEPT !["bg"] = cycle.list[cycle.idx][1]]
            /\ inst' = [inst EXCEPT !["bg"] = cycle.list[cycle.idx][2]]
            /\ Construct("bg", cycle.list[cycle.idx][2])
            /\ UNCHANGED <<pending, endpoint, resp, calls>>
    /\ UNCHANGED <<now, dbVars, procVars, task, nextGrant, failedCodes, ret>>

\* Mutant of AccountDone: no try/except around import_transactions; the exception
\* leaves the loop.
AccountDoneNoCatch ==
    /\ cycle.pc = "import"
    /\ pc["bg"] \in {"done", "failed"}
    /\ cycle' = [cycle EXCEPT
                    !.pc = IF pc["bg"] = "failed" THEN "raised" ELSE "loop",
                    !.idx = IF pc["bg"] = "failed" THEN @ ELSE @ + 1,
                    !.outcome[cycle.idx] = IF pc["bg"] = "failed" THEN "raised" ELSE "ok"]
    /\ Released("bg")
    /\ UNCHANGED <<now, dbVars, procVars, task, nextGrant, failedCodes, ret>>

\* import_transactions returned, or raised into `except Exception: logging.exception`
AccountDone ==
    /\ cycle.pc = "import"
    /\ pc["bg"] \in {"done", "failed"}
    /\ cycle' = [cycle EXCEPT
                    !.pc = "loop",
                    !.idx = @ + 1,
                    !.outcome[cycle.idx] = IF pc["bg"] = "failed" THEN "raised" ELSE "ok",
                    !.logged = IF pc["bg"] = "failed" THEN @ + 1 ELSE @]
    /\ Released("bg")
    /\ UNCHANGED <<now, dbVars, procVars, task, nextGrant, failedCodes, ret>>

----------------------------------------------------------------------------
(* api.py: the periodic task *)

NoTask == [pc |-> "none", start |-> 0, wake |-> 0, log |-> "none"]

\* Mutant of start_periodic_import_task: the started flag is not looked at.
start_periodic_import_taskNoFlag ==
    /\ import_task_started' = TRUE
    /\ import_tasks' = import_tasks + 1
    /\ task' = [NoTask EXCEPT !.pc = "loop_top"]
    /\ UNCHANGED <<now, dbVars, env, cycle, thrVars, nextGrant, failedCodes, ret>>

\* start_periodic_import_task, the startup event handler
start_periodic_import_task ==
    /\ IF import_task_started
       THEN UNCHANGED <<import_task_started, import_tasks, task>>
       ELSE /\ import_task_started' = TRUE
            /\ import_tasks' = import_tasks + 1
            /\ task' = [NoTask EXCEPT !.pc = "loop_top"]
    /\ UNCHANGED <<now, dbVars, env, cycle, thrVars, nextGrant, failedCodes, ret>>

\* periodic_transactions_import: start = datetime.now();
\* await _run_import_all_accounts_async()
RunCycle ==
    /\ task.pc = "loop_top"
    /\ task' = [task EXCEPT !.pc = "awaiting", !.start = now, !.log = "none"]
    /\ cycle' = [IdleCycle EXCEPT !.pc = "list"]
    /\ UNCHANGED <<now, dbVars, procVars, thrVars, nextGrant, failedCodes, ret>>

\* Mutant of CycleEnd: no try/except around the cycle; an exception ends the task.
CycleEndNoCatch ==
    /\ task.pc = "awaiting"
    /\ cycle.pc \in {"returned", "raised"}
    /\ task' = IF cycle.pc = "raised"
               THEN [pc |-> "dead", start |-> 0, wake |-> 0, log |-> "none"]
               ELSE [pc |-> "sleeping", start |-> task.start, wake |-> now + Interval,
                     log |-> "completed"]
    /\ cycle' = IdleCycle
    /\ UNCHANGED <<now, dbVars, procVars, thrVars, nextGrant, failedCodes, ret>>

\* Mutant of CycleEnd: the sleep is shortened by the time the cycle took.
CycleEndFromStart ==
    /\ task.pc = "awaiting"
    /\ cycle.pc \in {"returned", "raised"}
    /\ task' = [pc |-> "sleeping", start |-> task.start, wake |-> task.start + Interval,
                log |-> IF cycle.pc = "raised" THEN "cycle failed" ELSE "completed"]
    /\ cycle' = IdleCycle
    /\ UNCHANGED <<now, dbVars, procVars, thrVars, nextGrant, failedCodes, ret>>

\* periodic_transactions_import: the cycle returned or raised; log, then sleep(interval)
CycleEnd ==
    /\ task.pc = "awaiting"
    /\ cycle.pc \in {"returned", "raised"}
    /\ task' = [pc |-> "sleeping", start |-> task.start, wake |-> now + Interval,
                log |-> IF cycle.pc = "raised" THEN "cycle failed" ELSE "completed"]
    /\ cycle' = IdleCycle
    /\ UNCHANGED <<now, dbVars, procVars, thrVars, nextGrant, failedCodes, ret>>

\* periodic_transactions_import: asyncio.sleep(interval) is over
Wake ==
    /\ task.pc = "sleeping"
    /\ now >= task.wake
    /\ task' = [task EXCEPT !.pc = "loop_top", !.wake = 0]
    /\ UNCHANGED <<now, dbVars, procVars, cycle, thrVars, nextGrant, failedCodes, ret>>

----------------------------------------------------------------------------
(* The process and the clock *)

IdleThreads ==
    [pc |-> [t \in Threads |-> "idle"],
     op |-> [t \in Threads |-> "none"],
     inst |-> [t \in Threads |-> "none"],
     acct |-> [t \in Threads |-> "none"],
     tok |-> [t \in Threads |-> None],
     pending |-> [t \in Threads |-> None],
     err |-> [t \in Threads |-> "none"],
     http |-> [t \in Threads |-> 0],
     endpoint |-> [t \in Threads |-> "none"],
     resp |-> [t \in Threads |-> "none"],
     calls |-> [t \in Threads |-> NoCalls]]

\* the process is stopped and started again by the operator; the store file stays
Restart ==
    /\ env' \in Envs
    /\ import_task_started' = FALSE
    /\ import_tasks' = 0
    /\ task' = NoTask
    /\ cycle' = IdleCycle
    /\ pc' = IdleThreads.pc
    /\ op' = IdleThreads.op
    /\ inst' = IdleThreads.inst
    /\ acct' = IdleThreads.acct
    /\ tok' = IdleThreads.tok
    /\ pending' = IdleThreads.pending
    /\ err' = IdleThreads.err
    /\ http' = IdleThreads.http
    /\ endpoint' = IdleThreads.endpoint
    /\ resp' = IdleThreads.resp
    /\ calls' = IdleThreads.calls
    /\ failedCodes' = [i \in Institutions |-> {}]
    /\ UNCHANGED <<now, dbVars, nextGrant, ret>>

Tick ==
    /\ now + TickSeconds <= MaxTime
    /\ now' = now + TickSeconds
    /\ UNCHANGED <<dbVars, procVars, task, cycle, thrVars, nextGrant, failedCodes, ret>>

Init ==
    /\ now = 0
    /\ tokens = {}
    /\ accounts = AccountTable
    /\ env \in Envs
    /\ import_task_started = FALSE
    /\ import_tasks = 0
    /\ task = NoTask
    /\ cycle = IdleCycle
    /\ pc = IdleThreads.pc
    /\ op = IdleThreads.op
    /\ inst = IdleThreads.inst
    /\ acct = IdleThreads.acct
    /\ tok = IdleThreads.tok
    /\ pending = IdleThreads.pending
    /\ err = IdleThreads.err
    /\ http = IdleThreads.http
    /\ endpoint = IdleThreads.endpoint
    /\ resp = IdleThreads.resp
    /\ calls = IdleThreads.calls
    /\ nextGrant = 1
    /\ failedCodes = [i \in Institutions |-> {}]
    /\ ret = NoCall

ThreadStep(t) ==
    \/ ExchangeResponse(t)
    \/ SaveExchanged(t)
    \/ PostRefresh(t)
    \/ RefreshResponse(t)
    \/ SaveRefreshed(t)
    \/ ListCall(t)
    \/ ListTransactions(t)
    \/ Forward(t)

Next ==
    \/ \E t \in Threads : ThreadStep(t)
    \/ \E t \in Threads : StartRequest(t)
    \/ \E t \in Threads : Respond(t)
    \/ ListActiveAccounts
    \/ NextAccount
    \/ AccountDone
    \/ start_periodic_import_task
    \/ RunCycle
    \/ CycleEnd
    \/ Wake
    \/ Restart
    \/ Tick

Spec == Init /\ [][Next]_vars

----------------------------------------------------------------------------
(* The periodic task alone: the task, its worker thread, the clock, restarts *)

BgStep ==
    \/ ExchangeResponse("bg")
    \/ SaveExchanged("bg")
    \/ PostRefresh("bg")
    \/ RefreshResponse("bg")
    \/ SaveRefreshed("bg")
    \/ ListTransactions("bg")
    \/ Forward("bg")

CycleStep == ListActiveAccounts \/ NextAccount \/ AccountDone

TaskStep == RunCycle \/ CycleEnd \/ Wake

NextPeriodic ==
    \/ BgStep
    \/ CycleStep
    \/ TaskStep
    \/ start_periodic_import_task
    \/ Restart
    \/ Tick

\* the event loop runs the task when it can, the worker thread runs, answers arrive,
\* time passes
LiveSpec ==
    /\ Init
    /\ [][NextPeriodic]_vars
    /\ WF_vars(BgStep)
    /\ WF_vars(CycleStep)
    /\ WF_vars(TaskStep)
    /\ WF_vars(Tick)

----------------------------------------------------------------------------
(* utils/database.py alone: the accounts table under any content, and the calls of a
   Database object on it *)

StoreInstitutions == {"barclays", "monzo"}
StoreNames == {"checking1", "creditcard1"}

\* the rows that may be inserted: name, type, institution, and actual_account_id set
\* or NULL
AccountRows ==
    {AccountRow(n, ty, i, IF ty = "credit" THEN "tl-card-1" ELSE "tl-acc-1", a) :
        n \in StoreNames, ty \in {"credit", "debit"}, i \in StoreInstitutions,
        a \in {"actual-1", "NULL"}}

procIdle == <<now, env, import_task_started, import_tasks, task, cycle, thrVars,
              nextGrant, failedCodes>>

\* a row is inserted out of band; AUTOINCREMENT puts it last in id order
InsertAccount ==
    /\ Len(accounts) < MaxRows
    /\ \E row \in AccountRows : accounts' = Append(accounts, row)
    /\ ret' = NoCall
    /\ UNCHANGED <<tokens, procIdle>>

\* Database(institution).get_account_id(account_name)
CallGetAccountId ==
    /\ \E n \in StoreNames, i \in StoreInstitutions :
          LET r == get_account_id(n, i)
          IN  ret' = [call |-> "get_account_id", name |-> n, institution |-> i,
                      raised |-> IF r = None THEN "NotFound" ELSE "none",
                      value |-> IF r = None THEN "none" ELSE r.value]
    /\ UNCHANGED <<dbVars, procIdle>>

\* Database(institution).is_credit_card(account_name)
CallIsCreditCard ==
    /\ \E n \in StoreNames, i \in StoreInstitutions :
          LET r == is_credit_card(n, i)
          IN  ret' = [call |-> "is_credit_card", name |-> n, institution |-> i,
                      raised |-> IF r = None THEN "NotFound" ELSE "none",
                      value |-> IF r = None THEN FALSE ELSE r.value]
    /\ UNCHANGED <<dbVars, procIdle>>

\* Database(institution).get_actual_account_id(account_name): None when no row matches
CallGetActualAccountId ==
    /\ \E n \in StoreNames, i \in StoreInstitutions :
          LET r == get_actual_account_id(n, i)
          IN  ret' = [call |-> "get_actual_account_id", name |-> n, institution |-> i,
                      raised |-> "none",
                      value |-> IF r = None THEN "NULL" ELSE r.value]
    /\ UNCHANGED <<dbVars, procIdle>>

\* Database().get_actual_accounts()
CallGetActualAccounts ==
    /\ ret' = [call |-> "get_actual_accounts", raised |-> "none",
               value |-> get_actual_accounts]
    /\ UNCHANGED <<dbVars, procIdle>>

AccountStoreInit ==
    /\ now = 0
    /\ tokens = {}
    /\ accounts = <<>>
    /\ env = [code |-> NoCode, client_ok |-> TRUE]
    /\ import_task_started = FALSE
    /\ import_tasks = 0
    /\ task = NoTask
    /\ cycle = IdleCycle
    /\ pc = IdleThreads.pc
    /\ op = IdleThreads.op
    /\ inst = IdleThreads.inst
    /\ acct = IdleThreads.acct
    /\ tok = IdleThreads.tok
    /\ pending = IdleThreads.pending
    /\ err = IdleThreads.err
    /\ http = IdleThreads.http
    /\ endpoint = IdleThreads.endpoint
    /\ resp = IdleThreads.resp
    /\ calls = IdleThreads.calls
    /\ nextGrant = 1
    /\ failedCodes = [i \in Institutions |-> {}]
    /\ ret = NoCall

AccountStoreNext ==
    \/ InsertAccount
    \/ CallGetAccountId
    \/ CallIsCreditCard
    \/ CallGetActualAccountId
    \/ CallGetActualAccounts

AccountStoreSpec == AccountStoreInit /\ [][AccountStoreNext]_vars

\* the rows of accounts matching (name, institution), as a set of positions
Matching(name, institution) ==
    {j \in 1..Len(accounts) :
        accounts[j].name = name /\ accounts[j].institution = institution}

\* the rows of accounts whose actual_account_id is set, as a set of positions
Active == {j \in 1..Len(accounts) : accounts[j].actual_account_id # "NULL"}

----------------------------------------------------------------------------
(* utils/database.py alone: the tokens table under saves for several institutions *)

\* the records a caller may pass to save_token
TokenRecords ==
    {TokenData(<<"access", g>>, <<"refresh", g>>, "Bearer", scope, expires_in) :
        g \in 1..MaxGrants, scope \in Scopes, expires_in \in ExpiresIn}

\* Database(institution).save_token(token_data); `before` is what get_token returned
\* just before the call
CallSaveToken ==
    /\ \E i \in StoreInstitutions, token_data \in TokenRecords :
          /\ tokens' = save_token(i, token_data)
          /\ ret' = [call |-> "save_token", institution |-> i, raised |-> "none",
                     value |-> token_data, before |-> get_token(i)]
    /\ UNCHANGED <<accounts, procIdle>>

\* Database(institution).get_token()
CallGetToken ==
    /\ \E i \in StoreInstitutions :
          ret' = [call |-> "get_token", institution |-> i, raised |-> "none",
                  value |-> get_token(i)]
    /\ UNCHANGED <<dbVars, procIdle>>

TokenStoreInit ==
    /\ AccountStoreInit

TokenStoreNext ==
    \/ CallSaveToken
    \/ CallGetToken

TokenStoreSpec == TokenStoreInit /\ [][TokenStoreNext]_vars

\* the rows of tokens under the key (provider, institution)
RowsOfKey(table, provider, institution) ==
    {r \in table : r.provider = provider /\ r.institution = institution}

----------------------------------------------------------------------------
(* Steps the claims speak about *)

\* thread t makes an upstream data request in this step
DataCall(t) == calls'[t].fetch = calls[t].fetch + 1

\* thread t constructs the client in this step
Constructs(t) == pc[t] = "idle" /\ pc'[t] # "idle"

\* thread t posts the authorization_code grant in this step
PostsExchange(t) == pc[t] # "exchanging" /\ pc'[t] = "exchanging"

----------------------------------------------------------------------------
(* C1..C10 *)

\* C1: whenever a thread hands the stored access token to an upstream data call, the
\* token has at least TOKEN_SKEW_SECONDS left at that moment (expiry re-evaluated
\* against the current time on every call).
C1_HandedTokenHasSkew ==
    [][\A t \in Threads :
          DataCall(t) => BearerToken(t).expires_at - now >= TOKEN_SKEW_SECONDS]_vars

\* C2: at most one refresh_token grant is in flight per institution at any time.
C2_OneRefreshInFlight ==
    \A i \in Institutions :
        Cardinality({t \in Threads : pc[t] = "refreshing" /\ inst[t] = i}) <= 1

\* C3: an authorization code whose exchange failed for an institution is not posted
\* again for that institution while the process runs (no operator intervention).
C3_FailedCodeNotRetried ==
    [][\A t \in Threads :
          PostsExchange(t) => env'.code \notin failedCodes[inst'[t]]]_vars

\* C4: once a TokenRecord is stored for an institution it stays stored, and every
\* construction for that institution from then on neither fails with
\* CredentialsUnavailable nor posts an authorization_code grant, whether or not the
\* code is configured.
C4_NoCodeNeededOnceStored ==
    [][/\ \A i \in Institutions : get_token(i) # None => get_token(i)' # None
       /\ \A t \in Threads :
             (Constructs(t) /\ get_token(inst'[t]) # None)
                 => /\ pc'[t] # "exchanging"
                    /\ err'[t] # "CredentialsUnavailable"
                    /\ env.client_ok => pc'[t] \in {"ready", "refresh"}]_vars

\* C4 witness: a construction went through with a stored record and no code configured.
C4_Witness ==
    \E t \in Threads :
        /\ env.code = NoCode
        /\ pc[t] \in {"ready", "refresh"}
        /\ get_token(inst[t]) # None

\* C5: the record a successful refresh builds and saves has the scope stored at that
\* moment and the other fields of the answer; saving it leaves the stored scope as it
\* was and replaces the other fields.
C5_RefreshKeepsScope ==
    [][\A t \in Threads :
          /\ (pc[t] = "refreshing" /\ pc'[t] = "save_refreshed")
                => /\ pending'[t].scope = get_token(inst[t]).scope
                   /\ pending'[t].access_token = <<"access", nextGrant>>
                   /\ pending'[t].refresh_token = <<"refresh", nextGrant>>
                   /\ pending'[t].token_type = "Bearer"
                   /\ (pending'[t].expires_at - now) \in ExpiresIn
          /\ (pc[t] = "save_refreshed" /\ pc'[t] = "ready")
                => /\ get_token(inst[t])'.scope = get_token(inst[t]).scope
                   /\ get_token(inst[t])' = pending[t]]_vars

\* C5 witness: a refresh succeeded; the record about to be saved has new tokens and
\* the stored scope.
C5_Witness ==
    \E t \in Threads :
        /\ pc[t] = "save_refreshed"
        /\ pending[t].access_token # get_token(inst[t]).access_token
        /\ pending[t].scope = get_token(inst[t]).scope

\* C6: a refresh grant in flight ends either in a record to save or, on a non-success
\* answer, in TokenRefreshFailed with the token table unchanged and no data request
\* and no forward made; after that failure the thread makes none either.
C6_RefreshFailureIsHard ==
    [][\A t \in Threads :
          /\ (pc[t] = "refreshing" /\ pc'[t] \notin {"refreshing", "idle"})
                => \/ pc'[t] = "save_refreshed" /\ pending'[t] # None
                   \/ /\ pc'[t] = "failed"
                      /\ err'[t] = "TokenRefreshFailed"
                      /\ tokens' = tokens
                      /\ calls'[t] = NoCalls
          /\ (pc[t] = "failed" /\ err[t] = "TokenRefreshFailed")
                => /\ calls[t] = NoCalls
                   /\ pc'[t] \in {"failed", "idle"}
                   /\ calls'[t] = NoCalls]_vars

\* C6 witness: a construction failed with TokenRefreshFailed.
C6_Witness ==
    \E t \in Threads :
        /\ pc[t] = "failed"
        /\ err[t] = "TokenRefreshFailed"
        /\ get_token(inst[t]) # None

\* C7: when _ensure_tokens_ready finds no stored record and no code is configured,
\* construction fails with CredentialsUnavailable; no grant is posted and the token
\* table is not written.
C7_NoTokenNoCode ==
    [][\A t \in Threads :
          (Constructs(t) /\ env.client_ok /\ get_token(inst'[t]) = None
              /\ env.code = NoCode)
              => /\ pc'[t] = "failed"
                 /\ err'[t] = "CredentialsUnavailable"
                 /\ tokens' = tokens
                 /\ nextGrant' = nextGrant]_vars

\* C7 witness: a construction failed with CredentialsUnavailable.
C7_Witness ==
    \E t \in Threads :
        /\ pc[t] = "failed"
        /\ err[t] = "CredentialsUnavailable"
        /\ tokens = {}

\* C8: a cycle that has listed the active accounts ends only by returning, with every
\* listed account attempted exactly once and one failure logged per account whose
\* import raised; while it runs no account is attempted twice.
C8_EveryAccountAttemptedOnce ==
    /\ \A k \in 1..Len(cycle.list) : cycle.attempts[k] <= 1
    /\ (cycle.pc \in {"loop", "import", "returned"}) => cycle.list = get_actual_accounts
    /\ (cycle.pc = "raised") => cycle.idx = 0
    /\ (cycle.pc = "returned")
          => /\ \A k \in 1..Len(cycle.list) : cycle.attempts[k] = 1
             /\ cycle.logged =
                   Cardinality({k \in 1..Len(cycle.list) : cycle.outcome[k] = "raised"})

\* C8 witness: a cycle returned in which an account failed and a later one was
\* attempted and succeeded.
C8_Witness ==
    /\ cycle.pc = "returned"
    /\ \E k \in 1..Len(cycle.list) : \E j \in 1..Len(cycle.list) :
          /\ k < j
          /\ cycle.outcome[k] = "raised"
          /\ cycle.outcome[j] = "ok"
          /\ cycle.attempts[j] = 1

\* C9: at most one periodic task exists in the process; it exists exactly when the
\* started flag is set.
C9_OnePeriodicTask ==
    /\ import_tasks <= 1
    /\ import_task_started <=> import_tasks = 1
    /\ import_task_started <=> task.pc # "none"

\* C9 witness: the task was started and has run a cycle; a start request in this state
\* is the no-op branch of start_periodic_import_task.
C9_Witness ==
    /\ import_task_started
    /\ import_tasks = 1
    /\ task.pc = "sleeping"

\* C10: when a cycle ends, by returning or by raising, the task logs it and goes to
\* sleep; a sleeping task whose wake-up time the clock reaches starts another cycle
\* (or the process was restarted).
C10_LoopNeverDies ==
    /\ [][(task.pc = "awaiting" /\ task'.pc # "awaiting")
             => \/ task'.pc = "none"
                \/ /\ task'.pc = "sleeping"
                   /\ task'.log = IF cycle.pc = "raised" THEN "cycle failed"
                                  ELSE "completed"]_vars
    /\ (task.pc = "awaiting" /\ cycle.pc \in {"returned", "raised"})
          ~> (task.pc \in {"sleeping", "none"})
    /\ (task.pc = "sleeping" /\ task.wake <= LastTime) ~> (task.pc \in {"awaiting", "none"})

\* C10 witness: the task woke up after a cycle that raised.
C10_Witness ==
    /\ task.pc = "loop_top"
    /\ task.log = "cycle failed"

----------------------------------------------------------------------------
(* C11..C20 *)

\* C11: every write of the token table is the save of one thread and leaves the row of
\* that institution equal, in all token fields together, to the record that thread
\* passed in; so after two concurrent saves the row is the later writer's record, and
\* no stored row mixes the fields of two grants.
C11_SavedRowIsOneInput ==
    /\ [](\A r \in tokens : r.access_token[2] = r.refresh_token[2])
    /\ [][tokens' # tokens
             => \E t \in Threads :
                   /\ pc[t] \in {"save_exchanged", "save_refreshed"}
                   /\ pc'[t] = "ready"
                   /\ get_token(inst[t])' = pending[t]]_vars

\* C11 witness: two saves for one institution overlap: a thread is about to save the
\* record of a grant issued before the grant whose record another thread has stored.
C11_Witness ==
    \E t \in Threads :
        /\ pc[t] \in {"save_exchanged", "save_refreshed"}
        /\ get_token(inst[t]) # None
        /\ pending[t].access_token[2] < get_token(inst[t]).access_token[2]

\* C12: when the POST to the import service fails at the connection level the import
\* fails with status 502; when the service answers with a non-success status the import
\* fails with that status; the import succeeds only on a successful answer.
C12_ForwardStatusSurfaced ==
    [][\A t \in Threads :
          (pc[t] = "forward" /\ pc'[t] \notin {"forward", "idle"})
              => /\ resp'[t] = "RequestException"
                    => pc'[t] = "failed" /\ err'[t] = "HTTPException" /\ http'[t] = 502
                 /\ resp'[t] = "422"
                    => pc'[t] = "failed" /\ err'[t] = "HTTPException" /\ http'[t] = 422
                 /\ pc'[t] = "done" <=> resp'[t] = "200"
                 /\ pc'[t] = "done" => http'[t] = 200]_vars

\* C12 witness: an import failed with the status the import service answered.
C12_Witness ==
    \E t \in Threads :
        /\ pc[t] = "failed"
        /\ resp[t] = "422"
        /\ http[t] = 422

\* C13: a request for an import that fails because the account is unknown (NotFound) or
\* because no token is stored and no code is configured (CredentialsUnavailable) is
\* answered with a status of the 4xx class.
C13_UnknownOrNoCredentialsIs4xx ==
    (pc["req"] = "failed" /\ err["req"] \in {"NotFound", "CredentialsUnavailable"})
        => http["req"] \in 400..499

\* C14: for every content of the accounts table, in every insertion order,
\* get_actual_accounts returns one (name, institution) pair for each row whose
\* actual_account_id is set and nothing for the rows where it is NULL.
C14_ListActiveAccountsExact ==
    ret.call = "get_actual_accounts"
        => /\ {ret.value[k] : k \in 1..Len(ret.value)}
                 = {<<accounts[j].name, accounts[j].institution>> : j \in Active}
           /\ Len(ret.value) = Cardinality(Active)

\* C14 witness: the table holds a row without and, inserted after it, a row with an
\* actual_account_id; the call returned one pair.
C14_Witness ==
    /\ ret.call = "get_actual_accounts"
    /\ Len(accounts) >= 2
    /\ accounts[1].actual_account_id = "NULL"
    /\ accounts[2].actual_account_id # "NULL"
    /\ Len(ret.value) = 1

\* C16: when no row of accounts matches (name, institution), get_account_id and
\* is_credit_card fail with NotFound and get_actual_account_id returns absent without
\* failing; when a row matches, none of them fails; none of the calls writes a table.
C16_NotFoundOrAbsent ==
    /\ [](ret.call \in {"get_account_id", "is_credit_card"}
             => (ret.raised = "NotFound" <=> Matching(ret.name, ret.institution) = {}))
    /\ [](ret.call = "get_actual_account_id"
             => /\ ret.raised = "none"
                /\ Matching(ret.name, ret.institution) = {} => ret.value = "NULL")
    /\ [][ret'.call # "none" => accounts' = accounts /\ tokens' = tokens]_vars

\* C16 witness: get_account_id failed for a name that has a row under the other
\* institution only.
C16_Witness ==
    /\ ret.call = "get_account_id"
    /\ ret.raised = "NotFound"
    /\ \E j \in 1..Len(accounts) : accounts[j].name = ret.name

\* C15: a list_transactions call for an account that has a row makes exactly one
\* upstream listing call: the card-transactions endpoint when the row's type is credit,
\* the account-transactions endpoint otherwise, whatever the thread, the time and the
\* stored token are.
C15_EndpointByAccountKind ==
    [][\A t \in Threads :
          (/\ pc[t] = "ready"
           /\ op[t] = "import"
           /\ pc'[t] \notin {"ready", "idle"}
           /\ Matching(acct[t], inst[t]) # {})
              => /\ calls[t].fetch = 0
                 /\ calls'[t].fetch = 1
                 /\ \A j \in Matching(acct[t], inst[t]) :
                       endpoint'[t] = IF accounts[j].type = "credit"
                                      THEN "cards" ELSE "accounts"]_vars

\* C15 witness: the listing call of a credit account went to the cards endpoint.
C15_Witness ==
    \E t \in Threads :
        /\ endpoint[t] = "cards"
        /\ calls[t].fetch = 1
        /\ is_credit_card(acct[t], inst[t]) = [value |-> TRUE]

\* C17: in every import the client is constructed (token ensured) before the account is
\* resolved, the account is resolved before the upstream listing is requested, and the
\* forward is posted at most once, only after the listing succeeded; an import that
\* failed in an earlier step has posted no forward.
C17_ForwardOnlyAfterFetch ==
    \A t \in Threads :
        /\ calls[t].fetch <= 1
        /\ calls[t].forward <= 1
        /\ pc[t] \in {"idle", "exchanging", "save_exchanged", "refresh", "refreshing",
                      "save_refreshed", "ready"} => calls[t] = NoCalls
        /\ calls[t].fetch = 1
              => /\ get_token(inst[t]) # None
                 /\ op[t] = "import" => Matching(acct[t], inst[t]) # {}
        /\ pc[t] = "forward" => calls[t] = [fetch |-> 1, forward |-> 0]
        /\ calls[t].forward = 1
              => /\ op[t] = "import"
                 /\ calls[t].fetch = 1
                 /\ pc[t] \in {"done", "failed"}
                 /\ pc[t] = "failed" => err[t] = "HTTPException"
        /\ (pc[t] = "failed" /\ err[t] # "HTTPException") => calls[t].forward = 0
        /\ (pc[t] = "failed" /\ err[t] \notin {"HTTPException", "UpstreamRequestFailed"})
              => calls[t] = NoCalls

\* C17 witness: an import went through all four steps.
C17_Witness ==
    \E t \in Threads :
        /\ op[t] = "import"
        /\ pc[t] = "done"
        /\ calls[t] = [fetch |-> 1, forward |-> 1]

\* C18: the task goes to sleep only when its cycle has returned or raised, the sleep
\* ends Interval seconds after that moment whatever the cycle's outcome and however
\* long it ran, and the next cycle starts only once the clock has reached that time.
C18_SleepMeasuredFromCycleEnd ==
    [][/\ (task.pc = "awaiting" /\ task'.pc = "sleeping")
             => /\ cycle.pc \in {"returned", "raised"}
                /\ task'.wake = now + Interval
                /\ task'.wake >= task.start + Interval
       /\ (task.pc = "sleeping" /\ task'.pc \notin {"sleeping", "none"})
             => /\ now >= task.wake
                /\ task'.pc = "loop_top"
       /\ (task.pc # "awaiting" /\ task'.pc = "awaiting")
             => /\ task.pc = "loop_top"
                /\ task'.start = now]_vars

\* C18 witness: the task sleeps after a cycle that took time; the sleep ends later than
\* Interval seconds after the cycle's start.
C18_Witness ==
    /\ task.pc = "sleeping"
    /\ task.wake > task.start + Interval

\* C19: the token table never holds two rows with the same (provider, institution); a
\* save for an institution leaves exactly one row under its key, equal to the record
\* passed in, adds a row only if the key was free, and leaves the rows of the other
\* institutions as they were.
C19_OneRowPerKey ==
    /\ [](\A r1 \in tokens : Cardinality(RowsOfKey(tokens, r1.provider, r1.institution)) = 1)
    /\ [][\A i \in StoreInstitutions :
             (ret'.call = "save_token" /\ ret'.institution = i)
                => /\ Cardinality(RowsOfKey(tokens', Provider, i)) = 1
                   /\ get_token(i)' = ret'.value
                   /\ \A j \in StoreInstitutions \ {i} :
                         RowsOfKey(tokens', Provider, j) = RowsOfKey(tokens, Provider, j)
                   /\ Cardinality(tokens') =
                         Cardinality(tokens) + (IF get_token(i) = None THEN 1 ELSE 0)]_vars

\* C19 witness: a save replaced the row of an institution by a different record while
\* the other institution has a row too.
C19_Witness ==
    /\ ret.call = "save_token"
    /\ ret.before # None
    /\ ret.before # ret.value
    /\ Cardinality(tokens) = Cardinality(StoreInstitutions)

\* C20: the refresh_token grant a thread posts carries the refresh token of the record
\* stored for the institution at the moment it is posted; a refresh token superseded by
\* another caller's saved refresh is never sent.
C20_RefreshTokenIsCurrent ==
    [][\A t \in Threads :
          (pc[t] = "refresh" /\ pc'[t] = "refreshing")
              => tok[t].refresh_token = get_token(inst[t]).refresh_token]_vars

====
